---- MODULE Spec2Model ----
(***************************************************************************)
(* Schedule-extraction pipeline of gbc_ce_site.                            *)
(*                                                                         *)
(* Spec: the batch extraction driver (scraper/src/scrape.py,               *)
(* extract_dates_from_course_data), the retry wrapper try_extract_dates,   *)
(* the two provider adapters (cerebras_extract_dates,                      *)
(* cohere_extract_dates) and the checkpoint store (utils.py). One run of   *)
(* the driver is split at every provider invocation: the provider's        *)
(* answer is the only nondeterministic input of a run.                     *)
(*                                                                         *)
(* LoadSpec: the database loader (scraper/db/load_data.py,                 *)
(* load_course_data) over the tables of scraper/db/database.py. One step   *)
(* is one iteration of the loop over the files. With fewer files than the  *)
(* commit period (5 in test mode, 100 otherwise) the session is committed  *)
(* by the final commit only.                                               *)
(*                                                                         *)
(* SplitSpec: split_course_code applied to every short string.             *)
(*                                                                         *)
(* CompareSpec: compare_data (scraper/db/compare_data.py) for one course   *)
(* that is in the files and in the database.                               *)
(*                                                                         *)
(* BatchSpec: the loader over a listing of files with codes of their own,  *)
(* long enough for the periodic commit of test mode.                       *)
(*                                                                         *)
(* ReloadSpec: the loader followed by the comparator on the same files.    *)
(*                                                                         *)
(* CheckpointSpec: the script around the driver (main, __main__): the      *)
(* checkpoint file, the per-course JSON files and the memory of the        *)
(* process, over a corpus of ten records; the process can be killed and    *)
(* started again. The extraction of a record is one step.                  *)
(***************************************************************************)
EXTENDS Integers, Sequences, FiniteSets, TLC

(* ---------------- bounds of the model ---------------- *)
\* number of records in the corpus handed to the driver
MaxCourses == 2
\* number of consecutive runs of the driver over the corpus
MaxRuns == 2

(* ---------------- constants of the program ---------------- *)
\* stop_after_attempt(3)
MaxAttempts == 3
\* wait_exponential(multiplier=2, min=4, max=60)
WaitMultiplier == 2
WaitMin == 4
WaitMax == 60
\* len(processed_courses) % 10 == 0
SaveEvery == 10

(* ---------------- values ---------------- *)
Min2(a, b) == IF a < b THEN a ELSE b
Max2(a, b) == IF a > b THEN a ELSE b

\* course codes of the corpus; "" is a record scraped without a code
CourseCodes == {"ART 9082", "HOSF 9387"}
\* codes of an earlier run over other files, already in the checkpoint
OtherCodes == {"OLD 0001", "OLD 0002", "OLD 0003", "OLD 0004", "OLD 0005",
               "OLD 0006", "OLD 0007", "OLD 0008", "OLD 0009"}

\* schedule entries, as the text of their fields
GoodEntry == "Tuesday 6:00 PM"
OldEntry == "Monday 9:00 AM"
BadEntry == "start_date only"

\* str.replace(" ", "") on the entries of a response
StripSpaces(e) ==
  CASE e = "Tuesday 6:00 PM" -> "Tuesday6:00PM"
    [] e = "Monday 9:00 AM" -> "Monday9:00AM"
    [] e = "start_date only" -> "start_dateonly"
    [] OTHER -> e

RECURSIVE MapStrip(_)
MapStrip(s) == IF s = <<>> THEN <<>> ELSE <<StripSpaces(Head(s))>> \o MapStrip(Tail(s))

\* A response text: what it holds once read as JSON.
\*   kind   "absent" (no such key), "empty" (""), "object" ({"schedules": [...]}),
\*          "keyless" (a JSON object without "schedules"), "garbage" (not JSON)
\*   fenced wrapped in ```json ... ```
\*   nulls  "no", "null" (a JSON null inside), "None" (the Python spelling)
Text(kind, fenced, nulls, scheds) ==
  [kind |-> kind, fenced |-> fenced, nulls |-> nulls, schedules |-> scheds]

NoText == Text("absent", FALSE, "no", <<>>)
EmptyText == Text("empty", FALSE, "no", <<>>)

\* the five fields of the pydantic Schedule model are all present and strings
SchemaValidEntry(e) == e \in {GoodEntry, OldEntry, StripSpaces(GoodEntry), StripSpaces(OldEntry)}

\* json.dumps({"schedules": cleaned_schedules})
json_dumps(scheds) == Text("object", FALSE, "no", scheds)

\* json.loads: [error |-> JSONDecodeError raised, has_key |-> "schedules" in obj, schedules]
json_loads(t) ==
  IF t.fenced \/ t.kind \in {"absent", "empty", "garbage"} \/ t.nulls = "None"
    THEN [error |-> TRUE, has_key |-> FALSE, schedules |-> <<>>]
    ELSE [error |-> FALSE, has_key |-> (t.kind = "object"),
          schedules |-> IF t.kind = "object" THEN t.schedules ELSE <<>>]

(* ---------------- the checkpoint store (utils.py) ---------------- *)
\* processed_courses.json: whether the file exists and the codes it lists
CheckpointFile(exists, codes) == [exists |-> exists, codes |-> codes]

\* load_processed_courses: the set in the file, the empty set when there is no file
load_processed_courses(file) == IF file.exists THEN file.codes ELSE {}

\* save_processed_courses: the file is (re)written with the whole set
save_processed_courses(processed) == CheckpointFile(TRUE, processed)

(* ---------------- the provider adapters ---------------- *)
\* What the Cerebras backend can answer to one chat.completions.create call:
\* the call raises (timeout, rate limit), the message has no content, or a text.
CerebrasResponses ==
  { [kind |-> "raise", text |-> NoText],
    [kind |-> "null", text |-> NoText],
    [kind |-> "text", text |-> Text("object", TRUE, "no", <<GoodEntry>>)],
    [kind |-> "text", text |-> Text("object", FALSE, "no", <<>>)],
    [kind |-> "text", text |-> Text("object", FALSE, "no", <<BadEntry>>)],
    [kind |-> "text", text |-> Text("garbage", FALSE, "no", <<>>)] }

\* What the Cohere backend can answer to one co.chat call.
CohereResponses ==
  { [kind |-> "raise", text |-> NoText],
    [kind |-> "text", text |-> EmptyText],
    [kind |-> "text", text |-> Text("object", TRUE, "no", <<GoodEntry>>)],
    [kind |-> "text", text |-> Text("object", FALSE, "null", <<GoodEntry>>)],
    [kind |-> "text", text |-> Text("object", FALSE, "no", <<BadEntry>>)],
    [kind |-> "text", text |-> Text("keyless", FALSE, "no", <<>>)],
    [kind |-> "text", text |-> Text("garbage", TRUE, "no", <<>>)] }

\* The value of one adapter call:
\*   called  the backend was invoked
\*   raised  the call left the adapter with an exception
\*   truthy  the returned value passes "if value:" in the driver
\*   schedules  the schedules of a returned ScheduleList
\*   text    the returned response text (Cohere)
Returned(called, truthy, scheds, text) ==
  [called |-> called, raised |-> FALSE, truthy |-> truthy, schedules |-> scheds, text |-> text]
Raised == [called |-> TRUE, raised |-> TRUE, truthy |-> FALSE, schedules |-> <<>>, text |-> NoText]

\* ScheduleList.model_validate_json(response_text)
model_validate_json(t) ==
  /\ ~t.fenced
  /\ t.kind = "object"
  /\ t.nulls = "no"
  /\ \A k \in 1..Len(t.schedules) : SchemaValidEntry(t.schedules[k])

\* response_text.replace("```json", "").replace("```", "").strip()
strip_fences(t) == [t EXCEPT !.fenced = FALSE]

\* cerebras_extract_dates. When create() raises, the except clause reads
\* response_text before it was ever bound: the UnboundLocalError leaves the
\* adapter. A response that was received and is rejected returns None.
cerebras_extract_dates(course_sections, resp) ==
  IF Len(course_sections) = 0 THEN Returned(FALSE, FALSE, <<>>, NoText)
  ELSE IF resp.kind = "raise" THEN Raised
  ELSE IF resp.kind = "null" THEN Returned(TRUE, FALSE, <<>>, NoText)
  ELSE IF model_validate_json(strip_fences(resp.text))
         THEN Returned(TRUE, TRUE, strip_fences(resp.text).schedules, NoText)
         ELSE Returned(TRUE, FALSE, <<>>, NoText)

\* cerebras_clean_response: response.model_dump()["schedules"]
cerebras_clean_response(response) == response.schedules

\* (variant: the empty-sections guard inverted, the backend is never called)
cohere_extract_dates_inverted(course_sections, resp) ==
  IF Len(course_sections) # 0 THEN Returned(FALSE, FALSE, <<>>, EmptyText)
  ELSE IF resp.kind = "raise" THEN Raised
  ELSE Returned(TRUE, resp.text.kind # "empty", <<>>, resp.text)

\* cohere_extract_dates: no try/except, an API error leaves the adapter;
\* the response text is returned as it is.
cohere_extract_dates(course_sections, resp) ==
  IF Len(course_sections) = 0 THEN Returned(FALSE, FALSE, <<>>, EmptyText)
  ELSE IF resp.kind = "raise" THEN Raised
  ELSE Returned(TRUE, resp.text.kind # "empty", <<>>, resp.text)

\* cohere_clean_response: fences, newlines and every space removed, null -> None
cohere_clean_response(t) ==
  [t EXCEPT !.fenced = FALSE,
            !.nulls = IF @ = "null" THEN "None" ELSE @,
            !.schedules = MapStrip(@)]

(* ---------------- the retry policy of try_extract_dates ---------------- *)
RECURSIVE Pow2(_)
Pow2(n) == IF n = 0 THEN 1 ELSE 2 * Pow2(n - 1)

\* wait_exponential(multiplier=2, min=4, max=60) after failed attempt number n:
\* multiplier * 2^(n-1), clamped to [min, max]
wait_exponential(n) == Max2(WaitMin, Min2(WaitMultiplier * Pow2(n - 1), WaitMax))

\* (variant: one attempt more than configured)
stop_after_attempt_late(n) == n > MaxAttempts

\* stop_after_attempt(3)
stop_after_attempt(n) == n >= MaxAttempts

(* ---------------- the corpus ---------------- *)
CourseNames == {"Pizza", "Culinary Arts Program"}

\* "program" in course.get("course_name", "").lower()
IsProgramName(name) == name = "Culinary Arts Program"

Course(code, name, sections, has, scheds, cleaned) ==
  [course_code |-> code, course_name |-> name, course_sections |-> sections,
   has_schedules |-> has, schedules |-> scheds, cleaned_response_schedules |-> cleaned]

\* The records a corpus can hold. A freshly scraped record (extract_course_data)
\* has neither "schedules" nor "cleaned_response_schedules"; a record written
\* back by an earlier run carries the schedules that run left on it: an empty
\* list, or the entries it extracted together with their serialisation.
CourseRecords ==
  { Course(code, name, sections, shape[1], shape[2], shape[3]) :
      code \in CourseCodes \cup {""},
      name \in CourseNames,
      sections \in {<<>>, <<"Section 1">>},
      shape \in { <<FALSE, <<>>, NoText>>,
                  <<TRUE, <<>>, NoText>>,
                  <<TRUE, <<OldEntry>>, json_dumps(<<OldEntry>>)>> } }

\* Schedule entries are only ever extracted from sections, and only for records
\* that pass clean_invalid_courses; a record the filter drops is scraped with
\* its sections and never written back.
ProducibleRecord(c) ==
  /\ c.schedules # <<>> => c.course_sections # <<>>
  /\ (c.course_code = "" \/ IsProgramName(c.course_name)) =>
        (~c.has_schedules /\ c.course_sections # <<>>)

\* the checkpoint files a run can find: none, one listing some codes of the
\* corpus, or one listing the codes of other files processed earlier
CheckpointFiles ==
  { CheckpointFile(FALSE, {}), CheckpointFile(TRUE, OtherCodes) } \cup
  { CheckpointFile(TRUE, sub) : sub \in (SUBSET CourseCodes) \ {{}} }

(* ---------------- state ---------------- *)
VARIABLES
  course_data,        \* the corpus: the records handed to the driver, updated in place
  checkpoint_file,    \* processed_courses.json
  processed_courses,  \* the in-memory set of the running driver
  resume,             \* the resume argument of the current run
  unprocessed,        \* the list the loop iterates: indices into course_data
  i,                  \* position of the loop in unprocessed
  pc,                 \* "idle", "loop", "cerebras", "cohere"
  attempt,            \* attempt number inside try_extract_dates
  sleeps,             \* the waits of the current (or last) try_extract_dates call
  run,                \* number of runs started
  prev_resume,        \* the resume argument of the run before
  loaded,             \* the checkpoint set loaded at the start of the run
  invoked,            \* <<index, service>> of every backend call of the run
  log,                \* the backend calls made so far for the course being extracted
  outcome             \* per record: how the run left it

scrapeVars == <<course_data, checkpoint_file, processed_courses, resume, unprocessed, i, pc,
                attempt, sleeps, run, prev_resume, loaded, invoked, log, outcome>>

\* state of the database loader (scraper/db/load_data.py, load_course_data)
VARIABLES
  json_files,         \* the files of json_dir, in the order glob lists them
  test_mode,          \* the test_mode argument
  load_pc,            \* "idle", "loop", "commit", "done", "deleted"
  file_idx,           \* position of the loop in json_files
  data_from,          \* the file the local variable data was last bound from, 0: unbound
  db_new,             \* the session: course rows added and not yet committed
  db_courses,         \* table courses
  db_schedules,       \* table schedules
  added_course_codes, \* the codes added in this run
  failed_courses,     \* the failure report being collected
  failed_report,      \* data/errors/failed_courses.json as save_failed_courses left it
  counters,           \* courses_added, schedules_added, errors
  logged,             \* how the run ended in the log: "none", "summary", "error"
  db_fault            \* the database refused a statement of this run

loadVars == <<json_files, test_mode, load_pc, file_idx, data_from, db_new, db_courses,
              db_schedules, added_course_codes, failed_courses, failed_report, counters,
              logged, db_fault>>

\* state of a call of split_course_code
VARIABLES
  split_arg,          \* the course_code argument
  split_ret           \* <<>> before the call, <<prefix, number>> after it

splitVars == <<split_arg, split_ret>>

\* state of a call of compare_data
VARIABLES
  json_schedules,     \* "schedules" of the course in json_data
  db_data_schedules,  \* "schedules" of the course in db_data
  edited,             \* the entry and field of json_schedules changed last, <<>>: none
  results             \* the value of compare_data: whether it returned, "updated_courses"

compareVars == <<json_schedules, db_data_schedules, edited, results>>

\* state of the script and of the files it leaves behind (scrape.py, __main__
\* and main around extract_dates_from_course_data)
VARIABLES
  with_sections,      \* per record of the corpus: course_sections is not empty
  processed_file,     \* processed_courses.json
  course_files,       \* the records whose per-course JSON file holds their schedules
  in_memory,          \* the set processed_courses of the running script
  extracted,          \* the records whose dict in memory holds their schedules
  worklist,           \* the list unprocessed of the running script
  at,                 \* position of the loop in worklist
  step,               \* "idle", "loop", "returned"
  with_resume,        \* the resume argument of the run
  starts,             \* number of times the script was started
  killed              \* the script was killed before it ended

checkpointVars == <<with_sections, processed_file, course_files, in_memory, extracted, worklist, at,
                    step, with_resume, starts, killed>>

vars == <<scrapeVars, loadVars, splitVars, compareVars, checkpointVars>>

\* the loader has not been started
LoadIdle ==
  /\ json_files = <<>>
  /\ test_mode = FALSE
  /\ load_pc = "idle"
  /\ file_idx = 1
  /\ data_from = 0
  /\ db_new = <<>>
  /\ db_courses = <<>>
  /\ db_schedules = <<>>
  /\ added_course_codes = {}
  /\ failed_courses = <<>>
  /\ failed_report = <<>>
  /\ counters = [courses_added |-> 0, schedules_added |-> 0, errors |-> 0]
  /\ logged = "none"
  /\ db_fault = FALSE

\* split_course_code has not been called
SplitIdle ==
  /\ split_arg = <<>>
  /\ split_ret = <<>>

\* compare_data has not been called
CompareIdle ==
  /\ json_schedules = <<>>
  /\ db_data_schedules = <<>>
  /\ edited = <<>>
  /\ results = [called |-> FALSE, updated_courses |-> <<>>]

\* the script has not been started
CheckpointIdle ==
  /\ with_sections = <<>>
  /\ processed_file = CheckpointFile(FALSE, {})
  /\ course_files = {}
  /\ in_memory = {}
  /\ extracted = {}
  /\ worklist = <<>>
  /\ at = 1
  /\ step = "idle"
  /\ with_resume = TRUE
  /\ starts = 0
  /\ killed = FALSE

Indices == 1..MaxCourses

Init ==
  /\ course_data \in [Indices -> {c \in CourseRecords : ProducibleRecord(c)}]
  /\ checkpoint_file \in CheckpointFiles
  /\ processed_courses = {}
  /\ resume \in BOOLEAN
  /\ unprocessed = <<>>
  /\ i = 1
  /\ pc = "idle"
  /\ attempt = 0
  /\ sleeps = <<>>
  /\ run = 0
  /\ prev_resume = TRUE
  /\ loaded = {}
  /\ invoked = {}
  /\ log = <<>>
  /\ outcome = [k \in Indices |-> "none"]
  /\ LoadIdle
  /\ SplitIdle
  /\ CompareIdle
  /\ CheckpointIdle

(* ---------------- the driver: extract_dates_from_course_data ---------------- *)
\* clean_invalid_courses: records without a code and programs are dropped.
\* The result lists the kept records by their index in the corpus.
KeptByClean(c) == c.course_code # "" /\ ~IsProgramName(c.course_name)
clean_invalid_courses(data) ==
  LET keep(k) == KeptByClean(data[k]) IN SelectSeq([k \in 1..Len(data) |-> k], keep)

\* (variant: the checkpoint is not consulted)
UnprocessedAll(data, processed) == clean_invalid_courses(data)

\* unprocessed = [c for c in course_data if c.get("course_code") not in processed_courses]
Unprocessed(data, processed) ==
  LET todo(k) == data[k].course_code \notin processed
  IN SelectSeq(clean_invalid_courses(data), todo)

\* (variant: the checkpoint is loaded whatever resume says)
InitialProcessedAlways(r, file) == load_processed_courses(file)

\* processed_courses = load_processed_courses(DATA_PATH) if resume else set()
InitialProcessed(r, file) == IF r THEN load_processed_courses(file) ELSE {}

\* lines 399-411: filter, load the checkpoint, list the unprocessed records
Enter(r) ==
  /\ pc = "idle"
  /\ run < MaxRuns
  /\ resume' = r
  /\ processed_courses' = InitialProcessed(r, checkpoint_file)
  /\ loaded' = InitialProcessed(r, checkpoint_file)
  /\ unprocessed' = Unprocessed(course_data, InitialProcessed(r, checkpoint_file))
  /\ prev_resume' = resume
  /\ run' = run + 1
  /\ i' = 1
  /\ pc' = "loop"
  /\ attempt' = 0
  /\ sleeps' = <<>>
  /\ invoked' = {}
  /\ log' = <<>>
  /\ outcome' = [k \in Indices |-> "none"]
  /\ UNCHANGED <<course_data, checkpoint_file>>
  /\ UNCHANGED <<loadVars, splitVars, compareVars, checkpointVars>>

\* extract_dates_from_course_data(course_data, resume) called on a corpus
StartRun ==
  /\ run = 0
  /\ Enter(resume)

\* __main__, lines 664-676: the script is run again over the corpus the run
\* before left behind; this entry point always passes resume=True
Rerun ==
  /\ run > 0
  /\ Enter(TRUE)

InLoop == pc = "loop" /\ i <= Len(unprocessed)
cur == unprocessed[i]

\* (variant: the key is not initialised)
InitSchedulesSkipped(c) == c

\* if "schedules" not in course: course["schedules"] = []
InitSchedules(c) == IF c.has_schedules THEN c ELSE [c EXCEPT !.has_schedules = TRUE, !.schedules = <<>>]

\* (variant: a record without sections is not added to the processed set)
AddNoSectionsForgotten(processed, code) == processed

\* processed_courses.add(course_code) of the branch without sections
AddNoSections(processed, code) == processed \cup {code}

\* lines 414-426: a record without sections is marked processed, the loop continues
NoSections ==
  /\ InLoop
  /\ course_data[cur].course_sections = <<>>
  /\ course_data' = [course_data EXCEPT ![cur] = InitSchedules(@)]
  /\ processed_courses' = AddNoSections(processed_courses, course_data[cur].course_code)
  /\ outcome' = [outcome EXCEPT ![cur] = "no_sections"]
  /\ i' = i + 1
  /\ attempt' = 0
  /\ sleeps' = <<>>
  /\ UNCHANGED <<checkpoint_file, resume, unprocessed, pc, run,
                 prev_resume, loaded, invoked, log>>
  /\ UNCHANGED <<loadVars, splitVars, compareVars, checkpointVars>>

\* lines 414-431: a record with sections enters try_extract_dates(service="cerebras")
ProcessCourse ==
  /\ InLoop
  /\ course_data[cur].course_sections # <<>>
  /\ course_data' = [course_data EXCEPT ![cur] = InitSchedules(@)]
  /\ pc' = "cerebras"
  /\ attempt' = 1
  /\ sleeps' = <<>>
  /\ log' = <<>>
  /\ UNCHANGED <<checkpoint_file, processed_courses, resume, unprocessed, i, run,
                 prev_resume, loaded, invoked, outcome>>
  /\ UNCHANGED <<loadVars, splitVars, compareVars, checkpointVars>>

\* lines 463-473: mark as processed, save the checkpoint every 10th code
PeriodicSave(processed, file) ==
  IF Cardinality(processed) % SaveEvery = 0 THEN save_processed_courses(processed) ELSE file

MarkProcessed(how) ==
  /\ processed_courses' = processed_courses \cup {course_data[cur].course_code}
  /\ checkpoint_file' =
       PeriodicSave(processed_courses \cup {course_data[cur].course_code}, checkpoint_file)
  /\ outcome' = [outcome EXCEPT ![cur] = how]
  /\ i' = i + 1
  /\ pc' = "loop"
  /\ log' = <<>>

LogEntry(service, r) ==
  [service |-> service, attempt |-> attempt,
   result |-> IF r.raised THEN "raise" ELSE IF r.truthy THEN "value" ELSE "falsy"]

\* (variant: a ScheduleList with no schedules counts as a failure)
PrimarySucceededNonEmpty(r) == ~r.raised /\ r.truthy /\ r.schedules # <<>>

\* line 433, "if extracted_schedules:" on the value of try_extract_dates
\* (None when the last attempt raised); a ScheduleList is always truthy
PrimarySucceeded(r) == ~r.raised /\ r.truthy

\* tenacity: an attempt that raises is retried after a wait until stop_after_attempt
Retried(r) == r.raised /\ ~stop_after_attempt(attempt)

\* One attempt of _extract() for service="cerebras" and what follows it:
\* a retry after a wait, the fallback to Cohere (lines 439-441) or the
\* attachment of the result (lines 433-438, 463-473).
CerebrasAttempt ==
  /\ pc = "cerebras"
  /\ \E resp \in CerebrasResponses :
       LET r == cerebras_extract_dates(course_data[cur].course_sections, resp) IN
       /\ invoked' = IF r.called THEN invoked \cup {<<cur, "cerebras">>} ELSE invoked
       /\ IF Retried(r)
            THEN /\ sleeps' = Append(sleeps, wait_exponential(attempt))
                 /\ attempt' = attempt + 1
                 /\ log' = Append(log, LogEntry("cerebras", r))
                 /\ UNCHANGED <<course_data, checkpoint_file, processed_courses, i, pc, outcome>>
            ELSE IF PrimarySucceeded(r)
              THEN /\ course_data' = [course_data EXCEPT ![cur] =
                         [@ EXCEPT !.schedules = cerebras_clean_response(r),
                                   !.cleaned_response_schedules =
                                       json_dumps(cerebras_clean_response(r))]]
                   /\ MarkProcessed("primary")
                   /\ UNCHANGED <<attempt, sleeps>>
              ELSE /\ pc' = "cohere"
                   /\ attempt' = 1
                   /\ sleeps' = <<>>
                   /\ log' = Append(log, LogEntry("cerebras", r))
                   /\ UNCHANGED <<course_data, checkpoint_file, processed_courses, i, outcome>>
  /\ UNCHANGED <<resume, unprocessed, run, prev_resume, loaded>>
  /\ UNCHANGED <<loadVars, splitVars, compareVars, checkpointVars>>

\* lines 443-461: what the driver does with the value of the Cohere call
AttachCohere(c, r) ==
  IF ~r.raised /\ r.truthy
    THEN LET cleaned_response == cohere_clean_response(r.text)
             cleaned_schedules == json_loads(cleaned_response)
         IN IF ~cleaned_schedules.error /\ cleaned_schedules.has_key
              THEN [c EXCEPT !.cleaned_response_schedules = cleaned_response,
                             !.schedules = cleaned_schedules.schedules]
              ELSE [c EXCEPT !.cleaned_response_schedules = cleaned_response,
                             !.schedules = <<>>]
    ELSE c

CohereSucceeded(r) ==
  /\ ~r.raised
  /\ r.truthy
  /\ ~json_loads(cohere_clean_response(r.text)).error
  /\ json_loads(cohere_clean_response(r.text)).has_key

\* One attempt of _extract() for service="cohere" and what follows it
CohereAttempt ==
  /\ pc = "cohere"
  /\ \E resp \in CohereResponses :
       LET r == cohere_extract_dates(course_data[cur].course_sections, resp) IN
       /\ invoked' = IF r.called THEN invoked \cup {<<cur, "cohere">>} ELSE invoked
       /\ IF Retried(r)
            THEN /\ sleeps' = Append(sleeps, wait_exponential(attempt))
                 /\ attempt' = attempt + 1
                 /\ log' = Append(log, LogEntry("cohere", r))
                 /\ UNCHANGED <<course_data, checkpoint_file, processed_courses, i, pc, outcome>>
            ELSE /\ course_data' = [course_data EXCEPT ![cur] = AttachCohere(@, r)]
                 /\ MarkProcessed(IF CohereSucceeded(r) THEN "fallback" ELSE "both_failed")
                 /\ UNCHANGED <<attempt, sleeps>>
  /\ UNCHANGED <<resume, unprocessed, run, prev_resume, loaded>>
  /\ UNCHANGED <<loadVars, splitVars, compareVars, checkpointVars>>

\* lines 475-483: the loop is over, the checkpoint is saved, the run returns
FinishRun ==
  /\ pc = "loop"
  /\ i > Len(unprocessed)
  /\ checkpoint_file' = save_processed_courses(processed_courses)
  /\ pc' = "idle"
  /\ attempt' = 0
  /\ sleeps' = <<>>
  /\ log' = <<>>
  /\ UNCHANGED <<course_data, processed_courses, resume, unprocessed, i,
                 run, prev_resume, loaded, invoked, outcome>>
  /\ UNCHANGED <<loadVars, splitVars, compareVars, checkpointVars>>

Next ==
  \/ StartRun
  \/ Rerun
  \/ NoSections
  \/ ProcessCourse
  \/ CerebrasAttempt
  \/ CohereAttempt
  \/ FinishRun

Spec == Init /\ [][Next]_vars

TypeOK ==
  /\ pc \in {"idle", "loop", "cerebras", "cohere"}
  /\ run \in 0..MaxRuns
  /\ attempt \in 0..MaxAttempts

\* the extraction driver has not been started
ScrapeIdle ==
  /\ course_data = <<>>
  /\ checkpoint_file = CheckpointFile(FALSE, {})
  /\ processed_courses = {}
  /\ resume = TRUE
  /\ unprocessed = <<>>
  /\ i = 1
  /\ pc = "idle"
  /\ attempt = 0
  /\ sleeps = <<>>
  /\ run = 0
  /\ prev_resume = TRUE
  /\ loaded = {}
  /\ invoked = {}
  /\ log = <<>>
  /\ outcome = <<>>

(* ================ the database loader: scraper/db/load_data.py ================ *)
\* number of JSON files in json_dir
MaxFiles == 3

\* json_files[:5] in test mode
TestModeFiles == 5
\* db.commit() every 5 courses in test mode, every 100 otherwise
TestCommitEvery == 5
CommitEvery == 100

\* Python's None
None == <<>>

(* ---------------- split_course_code ---------------- *)
\* A course code is the sequence of its characters. "A" stands for the ASCII
\* letters, "7" for the ASCII digits; "E-acute" is the letter U+00C9, outside
\* ASCII (str.isalpha holds for it), "superscript-2" the character U+00B2, a
\* digit that is not a decimal (str.isdigit holds for it).
Chars == {"A", "E-acute", "7", "superscript-2", " "}

\* str.isalpha, str.isdigit: not empty and every character of the class
isalpha(s) == s # <<>> /\ \A k \in 1..Len(s) : s[k] \in {"A", "E-acute"}
isdigit(s) == s # <<>> /\ \A k \in 1..Len(s) : s[k] \in {"7", "superscript-2"}

\* course_code.split(" ", 1): cut at the first space, one part when there is none
str_split(s) ==
  IF \E k \in 1..Len(s) : s[k] = " "
    THEN LET k == CHOOSE k \in 1..Len(s) : s[k] = " " /\ \A j \in 1..(k - 1) : s[j] # " "
         IN <<SubSeq(s, 1, k - 1), SubSeq(s, k + 1, Len(s))>>
    ELSE <<s>>

\* (variant: the number is not validated)
split_course_code_unchecked(course_code) ==
  LET parts == str_split(course_code)
  IN IF Len(parts) # 2 THEN <<course_code, <<"7">>>> ELSE <<parts[1], <<"7">>>>

\* split_course_code: (prefix, number), or (course_code, "") for a code that
\* has no space, whose prefix is not 3 or 4 letters, or whose rest is not digits
split_course_code(course_code) ==
  LET parts == str_split(course_code)
  IN IF Len(parts) # 2 THEN <<course_code, <<>>>>
     ELSE IF ~(3 <= Len(parts[1]) /\ Len(parts[1]) <= 4 /\ isalpha(parts[1]))
       THEN <<course_code, <<>>>>
     ELSE IF ~isdigit(parts[2]) THEN <<course_code, <<>>>>
     ELSE <<parts[1], parts[2]>>

(* ---------------- parse_date, parse_time ---------------- *)
\* parse_date: strip, then "%Y-%m-%d", "%d%b%Y", "%B %d, %Y"; None when the
\* string is empty or fits no format. A date is <<year, month, day>>.
parse_date(date_str) ==
  CASE date_str = "2025-01-13" -> <<2025, 1, 13>>
    [] date_str = "2025-03-24" -> <<2025, 3, 24>>
    [] date_str = "24Mar2025" -> <<2025, 3, 24>>
    [] date_str = " March 24, 2025" -> <<2025, 3, 24>>
    [] OTHER -> None

\* (variant: a string that fits no format is taken as midnight)
parse_time_midnight(time_str) ==
  CASE time_str = "6:00 PM" -> <<18, 0>>
    [] time_str = "6:00PM" -> <<18, 0>>
    [] time_str = "9:00 p.m." -> <<21, 0>>
    [] time_str = "21:00" -> <<21, 0>>
    [] OTHER -> <<0, 0>>

\* parse_time: strip, lower, "p.m." -> "PM", then "%I:%M %p", "%I:%M%p", "%H:%M".
\* A time is <<hour, minute>>.
parse_time(time_str) ==
  CASE time_str = "6:00 PM" -> <<18, 0>>
    [] time_str = "6:00PM" -> <<18, 0>>
    [] time_str = "9:00 p.m." -> <<21, 0>>
    [] time_str = "21:00" -> <<21, 0>>
    [] OTHER -> None

\* a <= b on dates
DateLE(a, b) ==
  \/ a[1] < b[1]
  \/ a[1] = b[1] /\ a[2] < b[2]
  \/ a[1] = b[1] /\ a[2] = b[2] /\ a[3] <= b[3]

(* ---------------- the files of json_dir ---------------- *)
CodeA == <<"A", "A", "A", " ", "7">>
CodeB == <<"A", "A", "A", "A", " ", "7", "7">>
\* a file without "course_code", and a code without the space
NoCode == <<>>
BadCode == <<"A", "A", "A", "7">>
\* data.get("course_code", "Unknown") of a file without the key
Unknown == <<"U", "n", "k", "n", "o", "w", "n">>

\* one entry of "schedules" in a file
Entry(sd, ed, day, st, et) ==
  [start_date |-> sd, end_date |-> ed, day_or_days_of_week |-> day,
   start_time |-> st, end_time |-> et]

\* What a file holds: whether it can be read and decoded, and then its keys.
\* has_name: "course_name" is a key; has_schedules: "schedules" is a key and a list.
JsonFile(readable, code, has_name, name, sections, has_schedules, schedules) ==
  [readable |-> readable, course_code |-> code, has_name |-> has_name,
   course_name |-> name, course_sections |-> sections,
   has_schedules |-> has_schedules, schedules |-> schedules]

Unreadable == JsonFile(FALSE, NoCode, FALSE, "", <<>>, FALSE, <<>>)

FileContents ==
  { Unreadable,
    JsonFile(TRUE, CodeA, TRUE, "Pizza", <<"Section 1">>, TRUE,
             <<Entry("2025-01-13", "2025-03-24", "Monday", "6:00 PM", "9:00 p.m.")>>),
    JsonFile(TRUE, CodeA, TRUE, "Baking", <<>>, FALSE, <<>>),
    JsonFile(TRUE, CodeB, TRUE, "Pizza", <<"Section 1">>, TRUE,
             <<Entry("2025-03-24", "2025-01-13", "Tuesday", "6:00PM", "21:00")>>),
    JsonFile(TRUE, CodeB, TRUE, "Baking", <<>>, TRUE,
             <<Entry("TBD", "24Mar2025", "Monday", "6:00 PM", "21:00"),
               Entry("2025-01-13", "2025-01-13", "", "TBD", "")>>),
    JsonFile(TRUE, CodeB, FALSE, "", <<"Section 1">>, TRUE, <<>>),
    JsonFile(TRUE, NoCode, TRUE, "Pizza", <<"Section 1">>, FALSE, <<>>),
    JsonFile(TRUE, BadCode, TRUE, "Baking", <<>>, TRUE,
             <<Entry("2025-01-13", "2025-03-24", "Monday", "6:00 PM", "9:00 p.m.")>>) }

\* json_file.name of the file at a position of the listing
FileName(k) == <<"file", k>>

(* ---------------- the tables (database.py) ---------------- *)
\* a Course object with the Schedule objects of its relationship
CourseRow(code, prefix, number, name, schedules) ==
  [course_code |-> code, course_prefix |-> prefix, course_number |-> number,
   course_name |-> name, schedules |-> schedules]

ScheduleRow(sd, ed, day, st, et) ==
  [start_date |-> sd, end_date |-> ed, day_of_week |-> day, start_time |-> st, end_time |-> et]

\* rows of an earlier load that the tables may hold when the loader starts
OldCourses ==
  <<[id |-> 1, course_code |-> CodeB, course_prefix |-> <<"A", "A", "A", "A">>,
     course_number |-> <<"7", "7">>, course_name |-> "Pizza"]>>
OldSchedules ==
  <<[id |-> 1, course_id |-> 1, start_date |-> <<2025, 1, 13>>, end_date |-> <<2025, 3, 24>>,
     day_of_week |-> "Monday", start_time |-> <<18, 0>>, end_time |-> <<21, 0>>]>>

\* course_code = Column(String, unique=True): the flush of a commit is refused
\* when two rows would carry the same code
UniqueCodes(pending, courses) ==
  /\ \A a, b \in 1..Len(pending) : pending[a].course_code = pending[b].course_code => a = b
  /\ \A a \in 1..Len(pending), b \in 1..Len(courses) :
        pending[a].course_code # courses[b].course_code

\* the INSERTs of a commit: every pending course gets the next id, each of its
\* schedules gets the next id and the course's id as course_id
RECURSIVE Flush(_, _, _)
Flush(pending, courses, schedules) ==
  IF pending = <<>> THEN [courses |-> courses, schedules |-> schedules]
  ELSE LET c == Head(pending)
           cid == Len(courses) + 1
           rows == [k \in 1..Len(c.schedules) |->
                      [id |-> Len(schedules) + k, course_id |-> cid,
                       start_date |-> c.schedules[k].start_date,
                       end_date |-> c.schedules[k].end_date,
                       day_of_week |-> c.schedules[k].day_of_week,
                       start_time |-> c.schedules[k].start_time,
                       end_time |-> c.schedules[k].end_time]]
       IN Flush(Tail(pending),
                Append(courses, [id |-> cid, course_code |-> c.course_code,
                                 course_prefix |-> c.course_prefix,
                                 course_number |-> c.course_number,
                                 course_name |-> c.course_name]),
                schedules \o rows)

\* session.delete(course) with relationship("Schedule", back_populates="course")
\* and no delete cascade: the course row goes, the course_id of its schedules
\* is set to NULL (0), which Column(Integer, ForeignKey("courses.id")) allows
DeleteFrom(courses, cid) ==
  LET other(c) == c.id # cid IN SelectSeq(courses, other)
Nullify(schedules, cid) ==
  [k \in 1..Len(schedules) |->
     IF schedules[k].course_id = cid THEN [schedules[k] EXCEPT !.course_id = 0]
     ELSE schedules[k]]

(* ---------------- load_course_data ---------------- *)
\* the loader runs and nothing else does
LoadInit ==
  /\ json_files \in [1..MaxFiles -> FileContents]
  /\ test_mode \in BOOLEAN
  /\ load_pc = "idle"
  /\ file_idx = 1
  /\ data_from = 0
  /\ db_new = <<>>
  /\ \/ db_courses = <<>> /\ db_schedules = <<>>
     \/ db_courses = OldCourses /\ db_schedules = OldSchedules
  /\ added_course_codes = {}
  /\ failed_courses = <<>>
  /\ failed_report = <<>>
  /\ counters = [courses_added |-> 0, schedules_added |-> 0, errors |-> 0]
  /\ logged = "none"
  /\ db_fault = FALSE
  /\ ScrapeIdle
  /\ SplitIdle
  /\ CompareIdle
  /\ CheckpointIdle

\* json_files = json_files[:5] in test mode
Listed(files, test) ==
  IF test THEN SubSeq(files, 1, Min2(Len(files), TestModeFiles)) ELSE files

\* lines 129-156: the tables are dropped and created again, the files listed
RecreateTables ==
  /\ load_pc = "idle"
  /\ db_courses' = <<>>
  /\ db_schedules' = <<>>
  /\ json_files' = Listed(json_files, test_mode)
  /\ load_pc' = "loop"
  /\ UNCHANGED <<test_mode, file_idx, data_from, db_new, added_course_codes, failed_courses,
                 failed_report, counters, logged, db_fault>>
  /\ UNCHANGED <<scrapeVars, splitVars, compareVars, checkpointVars>>

\* lines 134, 260-264: drop_and_recreate_tables raises (the database cannot be
\* reached); the outer handler logs the error and rolls back
RecreateTablesFails ==
  /\ load_pc = "idle"
  /\ db_fault' = TRUE
  /\ logged' = "error"
  /\ db_new' = <<>>
  /\ load_pc' = "done"
  /\ UNCHANGED <<json_files, test_mode, file_idx, data_from, db_courses, db_schedules,
                 added_course_codes, failed_courses, failed_report, counters>>
  /\ UNCHANGED <<scrapeVars, splitVars, compareVars, checkpointVars>>

InFiles == load_pc = "loop" /\ file_idx <= Len(json_files)
json_file == json_files[file_idx]

\* one entry of failed_courses: the file of the iteration, and course_code,
\* has_sections, has_schedules read from the local variable data
FailedCourse(k, d, default, reason) ==
  [file |-> FileName(k),
   course_code |-> IF d.course_code = NoCode THEN default ELSE d.course_code,
   reason |-> reason,
   has_sections |-> d.course_sections # <<>>,
   has_schedules |-> d.schedules # <<>>]

\* lines 231-243, the handler of the loop body: an entry is appended and the
\* loop continues
Handled(d, reason) ==
  /\ failed_courses' = Append(failed_courses, FailedCourse(file_idx, d, Unknown, reason))
  /\ counters' = [counters EXCEPT !.errors = @ + 1]
  /\ file_idx' = file_idx + 1
  /\ UNCHANGED <<load_pc, logged>>

\* lines 160-161 raise (the file cannot be read or decoded). data was not
\* assigned in this iteration: the handler reads the file that bound it last.
\* When no earlier file bound it, data.get in the
\* handler raises UnboundLocalError, which ends the loop in the outer handler
\* (lines 260-264): the error is logged and the session rolled back.
ReadFails ==
  /\ InFiles
  /\ ~json_file.readable
  /\ IF data_from = 0
       THEN /\ logged' = "error"
            /\ load_pc' = "done"
            /\ db_new' = <<>>
            /\ UNCHANGED <<failed_courses, counters, file_idx>>
       ELSE /\ Handled(json_files[data_from], "Expecting value")
            /\ UNCHANGED db_new
  /\ UNCHANGED <<json_files, test_mode, data_from, db_courses, db_schedules,
                 added_course_codes, failed_report, db_fault>>
  /\ UNCHANGED <<scrapeVars, splitVars, compareVars, checkpointVars>>

\* if not course_code or not course_number
InvalidCode(course_code) == course_code = <<>> \/ split_course_code(course_code)[2] = <<>>

\* lines 160-179: the code is empty or does not split; the file is recorded
\* as failed and skipped
SkipInvalidCode ==
  /\ InFiles
  /\ json_file.readable
  /\ InvalidCode(json_file.course_code)
  /\ data_from' = file_idx
  /\ failed_courses' = Append(failed_courses,
        FailedCourse(file_idx, json_file, <<>>, "Invalid course code format"))
  /\ counters' = [counters EXCEPT !.errors = @ + 1]
  /\ file_idx' = file_idx + 1
  /\ UNCHANGED <<json_files, test_mode, load_pc, db_new, db_courses, db_schedules,
                 added_course_codes, failed_report, logged, db_fault>>
  /\ UNCHANGED <<scrapeVars, splitVars, compareVars, checkpointVars>>

\* (variant: the batch is not checked for duplicates)
InBatchNever(course_code, added) == FALSE

\* if course_code in added_course_codes
InBatch(course_code, added) == course_code \in added

\* lines 160-186: a code that was added earlier in this run is skipped
SkipDuplicate ==
  /\ InFiles
  /\ json_file.readable
  /\ ~InvalidCode(json_file.course_code)
  /\ InBatch(json_file.course_code, added_course_codes)
  /\ data_from' = file_idx
  /\ file_idx' = file_idx + 1
  /\ UNCHANGED <<json_files, test_mode, load_pc, db_new, db_courses, db_schedules,
                 added_course_codes, failed_courses, failed_report, counters, logged, db_fault>>
  /\ UNCHANGED <<scrapeVars, splitVars, compareVars, checkpointVars>>

\* lines 160-200, 231-243: data["course_name"] raises KeyError; data is bound
\* to this file when the handler runs
BuildFails ==
  /\ InFiles
  /\ json_file.readable
  /\ ~InvalidCode(json_file.course_code)
  /\ ~InBatch(json_file.course_code, added_course_codes)
  /\ ~json_file.has_name
  /\ data_from' = file_idx
  /\ Handled(json_file, "'course_name'")
  /\ UNCHANGED <<json_files, test_mode, db_new, db_courses, db_schedules,
                 added_course_codes, failed_report, db_fault>>
  /\ UNCHANGED <<scrapeVars, splitVars, compareVars, checkpointVars>>

\* (variant: an entry becomes a Schedule when its dates and its times parse)
RECURSIVE SchedulesTimesRequired(_)
SchedulesTimesRequired(entries) ==
  IF entries = <<>> THEN <<>>
  ELSE LET e == Head(entries)
           start_date == parse_date(e.start_date)
           end_date == parse_date(e.end_date)
           start_time == parse_time(e.start_time)
           end_time == parse_time(e.end_time)
       IN (IF start_date # None /\ end_date # None /\ start_time # None /\ end_time # None
             THEN <<ScheduleRow(start_date, end_date, e.day_or_days_of_week,
                                start_time, end_time)>>
             ELSE <<>>) \o SchedulesTimesRequired(Tail(entries))

\* lines 202-220: an entry becomes a Schedule when both of its dates parse
RECURSIVE Schedules(_)
Schedules(entries) ==
  IF entries = <<>> THEN <<>>
  ELSE LET e == Head(entries)
           start_date == parse_date(e.start_date)
           end_date == parse_date(e.end_date)
       IN (IF start_date # None /\ end_date # None
             THEN <<ScheduleRow(start_date, end_date, e.day_or_days_of_week,
                                parse_time(e.start_time), parse_time(e.end_time))>>
             ELSE <<>>) \o Schedules(Tail(entries))

\* lines 189-220: the Course of a file with its schedules
NewCourse(d) ==
  CourseRow(d.course_code, split_course_code(d.course_code)[1],
            split_course_code(d.course_code)[2], d.course_name,
            IF d.has_schedules THEN Schedules(d.schedules) ELSE <<>>)

\* (variant: the session is committed by the final commit only)
BatchFullNever(courses_added, test) == FALSE

\* if courses_added % (5 if test_mode else 100) == 0
BatchFull(courses_added, test) ==
  courses_added % (IF test THEN TestCommitEvery ELSE CommitEvery) = 0

\* lines 160-229: the course is added to the session; every 100th course (5th
\* in test mode) the session is committed. A commit that the database refuses
\* rolls the session back and raises into the handler of the loop body.
AddCourse ==
  /\ InFiles
  /\ json_file.readable
  /\ ~InvalidCode(json_file.course_code)
  /\ ~InBatch(json_file.course_code, added_course_codes)
  /\ json_file.has_name
  /\ data_from' = file_idx
  /\ added_course_codes' = added_course_codes \cup {json_file.course_code}
  /\ LET course == NewCourse(json_file)
         session == Append(db_new, course)
         added == [counters EXCEPT !.courses_added = @ + 1,
                                   !.schedules_added = @ + Len(course.schedules)]
     IN IF ~BatchFull(added.courses_added, test_mode)
          THEN /\ db_new' = session
               /\ counters' = added
               /\ file_idx' = file_idx + 1
               /\ UNCHANGED <<db_courses, db_schedules, failed_courses>>
          ELSE IF UniqueCodes(session, db_courses)
            THEN /\ db_new' = <<>>
                 /\ db_courses' = Flush(session, db_courses, db_schedules).courses
                 /\ db_schedules' = Flush(session, db_courses, db_schedules).schedules
                 /\ counters' = added
                 /\ file_idx' = file_idx + 1
                 /\ UNCHANGED failed_courses
            ELSE /\ db_new' = <<>>
                 /\ failed_courses' = Append(failed_courses,
                       FailedCourse(file_idx, json_file, Unknown, "IntegrityError"))
                 /\ counters' = [added EXCEPT !.errors = @ + 1]
                 /\ file_idx' = file_idx + 1
                 /\ UNCHANGED <<db_courses, db_schedules>>
  /\ UNCHANGED <<json_files, test_mode, load_pc, failed_report, logged, db_fault>>
  /\ UNCHANGED <<scrapeVars, splitVars, compareVars, checkpointVars>>

\* the loop is over: the final commit is next
EndOfFiles == load_pc = "loop" /\ file_idx > Len(json_files)

\* save_failed_courses, called when failed_courses is not empty
SavedReport(failed, report) == IF failed # <<>> THEN failed ELSE report

\* lines 245-258, 263-264: the final commit, the failure report, the summary
FinalCommit ==
  /\ EndOfFiles
  /\ UniqueCodes(db_new, db_courses)
  /\ db_courses' = Flush(db_new, db_courses, db_schedules).courses
  /\ db_schedules' = Flush(db_new, db_courses, db_schedules).schedules
  /\ db_new' = <<>>
  /\ failed_report' = SavedReport(failed_courses, failed_report)
  /\ logged' = "summary"
  /\ load_pc' = "done"
  /\ UNCHANGED <<json_files, test_mode, file_idx, data_from, added_course_codes,
                 failed_courses, counters, db_fault>>
  /\ UNCHANGED <<scrapeVars, splitVars, compareVars, checkpointVars>>

\* lines 246, 260-264: the final commit raises, because the database cannot be
\* reached or refuses a row; the outer handler logs the error and rolls back
FinalCommitFails ==
  /\ EndOfFiles
  /\ db_fault' = UniqueCodes(db_new, db_courses)
  /\ db_new' = <<>>
  /\ logged' = "error"
  /\ load_pc' = "done"
  /\ UNCHANGED <<json_files, test_mode, file_idx, data_from, db_courses, db_schedules,
                 added_course_codes, failed_courses, failed_report, counters>>
  /\ UNCHANGED <<scrapeVars, splitVars, compareVars, checkpointVars>>

\* database.py lines 22-53: a course of the loaded store is deleted through
\* the mapped classes
DeleteCourse ==
  /\ load_pc \in {"done", "deleted"}
  /\ \E k \in 1..Len(db_courses) :
       /\ db_courses' = DeleteFrom(db_courses, db_courses[k].id)
       /\ db_schedules' = Nullify(db_schedules, db_courses[k].id)
  /\ load_pc' = "deleted"
  /\ UNCHANGED <<json_files, test_mode, file_idx, data_from, db_new, added_course_codes,
                 failed_courses, failed_report, counters, logged, db_fault>>
  /\ UNCHANGED <<scrapeVars, splitVars, compareVars, checkpointVars>>

LoadNext ==
  \/ RecreateTables
  \/ RecreateTablesFails
  \/ ReadFails
  \/ SkipInvalidCode
  \/ SkipDuplicate
  \/ BuildFails
  \/ AddCourse
  \/ FinalCommit
  \/ FinalCommitFails
  \/ DeleteCourse

LoadSpec == LoadInit /\ [][LoadNext]_vars

(* ================ split_course_code called on its own ================ *)
\* length of the longest course code tried
MaxCodeLen == 7

\* every string over Chars up to the length
Codes == UNION {[1..n -> Chars] : n \in 0..MaxCodeLen}

SplitInit ==
  /\ split_arg \in Codes
  /\ split_ret = <<>>
  /\ ScrapeIdle
  /\ LoadIdle
  /\ CompareIdle
  /\ CheckpointIdle

\* load_data.py lines 78-101
CallSplit ==
  /\ split_ret = <<>>
  /\ split_ret' = split_course_code(split_arg)
  /\ UNCHANGED split_arg
  /\ UNCHANGED <<scrapeVars, loadVars, compareVars, checkpointVars>>

SplitNext == CallSplit

SplitSpec == SplitInit /\ [][SplitNext]_vars

(* ================ the comparator: scraper/db/compare_data.py ================ *)
\* length of the longest schedule list compared
MaxSchedules == 3

\* the five fields of a schedule on the file side; the database side names
\* the third one day_of_week
Fields == {"start_date", "end_date", "day_or_days_of_week", "start_time", "end_time"}

\* the values a field takes
FieldValues == {"x", "y"}

\* the schedule entries of a file: all fields "x", or one field "y"
JsonEntries ==
  {e \in [Fields -> FieldValues] : Cardinality({f \in Fields : e[f] = "y"}) <= 1}

\* the same schedule as read_database_data returns it
DbEntry(e) ==
  [start_date |-> e.start_date, end_date |-> e.end_date,
   day_of_week |-> e.day_or_days_of_week,
   start_time |-> e.start_time, end_time |-> e.end_time]

\* the orders a list can be stored in
Orders(s) ==
  {[k \in 1..Len(s) |-> DbEntry(s[p[k]])] :
     p \in {q \in [1..Len(s) -> 1..Len(s)] : \A a, b \in 1..Len(s) : q[a] = q[b] => a = b}}

\* lines 104-113: the set of five-tuples of the file side
json_schedules_set(schedules) ==
  {<<schedules[k].start_date, schedules[k].end_date, schedules[k].day_or_days_of_week,
     schedules[k].start_time, schedules[k].end_time>> : k \in 1..Len(schedules)}

\* lines 114-123: the set of five-tuples of the database side
db_schedules_set(schedules) ==
  {<<schedules[k].start_date, schedules[k].end_date, schedules[k].day_of_week,
     schedules[k].start_time, schedules[k].end_time>> : k \in 1..Len(schedules)}

\* lines 101-131 for one course that is on both sides: the course is listed
\* as updated when the two sets differ
updated_courses(json, db) ==
  IF json_schedules_set(json) # db_schedules_set(db)
    THEN <<[course_code |-> CodeA,
            json_schedules |-> Cardinality(json_schedules_set(json)),
            db_schedules |-> Cardinality(db_schedules_set(db))]>>
    ELSE <<>>

\* a course is in the files and in the database with the same schedules,
\* stored in some order
CompareInit ==
  /\ json_schedules \in UNION {[1..n -> JsonEntries] : n \in 0..MaxSchedules}
  /\ db_data_schedules \in Orders(json_schedules)
  /\ edited = <<>>
  /\ results = [called |-> FALSE, updated_courses |-> <<>>]
  /\ ScrapeIdle
  /\ LoadIdle
  /\ SplitIdle
  /\ CheckpointIdle

Other(v) == IF v = "x" THEN "y" ELSE "x"

\* a new scrape rewrites the course's file with one field of one schedule
\* entry changed
EditField ==
  /\ ~results.called
  /\ edited = <<>>
  /\ \E n \in 1..Len(json_schedules), f \in Fields :
       /\ json_schedules' = [json_schedules EXCEPT ![n][f] = Other(@)]
       /\ edited' = <<n, f>>
  /\ UNCHANGED <<db_data_schedules, results>>
  /\ UNCHANGED <<scrapeVars, loadVars, splitVars, checkpointVars>>

\* compare_data(json_data, db_data), lines 90-155
Compare ==
  /\ ~results.called
  /\ results' = [called |-> TRUE,
                 updated_courses |-> updated_courses(json_schedules, db_data_schedules)]
  /\ UNCHANGED <<json_schedules, db_data_schedules, edited>>
  /\ UNCHANGED <<scrapeVars, loadVars, splitVars, checkpointVars>>

CompareNext ==
  \/ EditField
  \/ Compare

CompareSpec == CompareInit /\ [][CompareNext]_vars

(* ================ the loader over a listing longer than a test batch ================ *)
\* number of JSON files in json_dir when the commit period is to be reached
MaxBatchFiles == 6

\* the file at position k carries a code of its own: "AAA 7", "AAA 77", ...
CodeOf(k) == <<"A", "A", "A", " ">> \o [j \in 1..k |-> "7"]

\* a course file with one schedule
ValidFile(k) ==
  JsonFile(TRUE, CodeOf(k), TRUE, "Pizza", <<"Section 1">>, TRUE,
           <<Entry("2025-01-13", "2025-03-24", "Monday", "6:00 PM", "9:00 p.m.")>>)

\* what else the position may hold: a file without a code, a second file with
\* the code of position 1, a file without course_name, a file that cannot be
\* decoded
OtherFile(k) ==
  CASE k % 4 = 1 -> JsonFile(TRUE, NoCode, TRUE, "Pizza", <<"Section 1">>, FALSE, <<>>)
    [] k % 4 = 2 -> JsonFile(TRUE, CodeOf(1), TRUE, "Baking", <<>>, FALSE, <<>>)
    [] k % 4 = 3 -> JsonFile(TRUE, CodeOf(k), FALSE, "", <<"Section 1">>, TRUE, <<>>)
    [] OTHER -> Unreadable

BatchInit ==
  /\ json_files \in {[k \in 1..MaxBatchFiles |-> IF k \in valid THEN ValidFile(k) ELSE OtherFile(k)] :
                       valid \in SUBSET (1..MaxBatchFiles)}
  /\ test_mode \in BOOLEAN
  /\ load_pc = "idle"
  /\ file_idx = 1
  /\ data_from = 0
  /\ db_new = <<>>
  /\ \/ db_courses = <<>> /\ db_schedules = <<>>
     \/ db_courses = OldCourses /\ db_schedules = OldSchedules
  /\ added_course_codes = {}
  /\ failed_courses = <<>>
  /\ failed_report = <<>>
  /\ counters = [courses_added |-> 0, schedules_added |-> 0, errors |-> 0]
  /\ logged = "none"
  /\ db_fault = FALSE
  /\ ScrapeIdle
  /\ SplitIdle
  /\ CompareIdle
  /\ CheckpointIdle

BatchSpec == BatchInit /\ [][LoadNext]_vars

(* ================ the comparator run after a load: compare_data.py ================ *)
\* a Python string next to None: a string is a one-element tuple here
Str(s) == <<s>>

\* datetime.date.isoformat, datetime.time.isoformat
date_isoformat(d) ==
  CASE d = <<2025, 1, 13>> -> "2025-01-13"
    [] d = <<2025, 3, 24>> -> "2025-03-24"
time_isoformat(t) ==
  CASE t = <<18, 0>> -> "18:00:00"
    [] t = <<21, 0>> -> "21:00:00"

\* read_json_data, lines 32-43: json_data[course_code] = data for every file
\* that decodes and has a code; of the files with one code the last one stays.
\* The value is the set of the positions whose data is in json_data.
read_json_data(files) ==
  {k \in 1..Len(files) :
     /\ files[k].readable
     /\ files[k].course_code # NoCode
     /\ \A j \in (k + 1)..Len(files) :
          ~(files[j].readable /\ files[j].course_code = files[k].course_code)}

\* json_data[code].get("schedules", []): the fields as json.load returns them
JsonSchedules(d) ==
  IF d.has_schedules
    THEN [n \in 1..Len(d.schedules) |-> [f \in Fields |-> Str(d.schedules[n][f])]]
    ELSE <<>>

\* read_database_data, lines 53-82: "schedules" of the course with a code
read_database_data(courses, schedules, code) ==
  LET own(s) == \E r \in 1..Len(courses) :
                    courses[r].course_code = code /\ courses[r].id = s.course_id
      rows == SelectSeq(schedules, own)
      iso_time(t) == IF t = None THEN None ELSE Str(time_isoformat(t))
  IN [n \in 1..Len(rows) |->
        [start_date |-> Str(date_isoformat(rows[n].start_date)),
         end_date |-> Str(date_isoformat(rows[n].end_date)),
         day_of_week |-> Str(rows[n].day_of_week),
         start_time |-> iso_time(rows[n].start_time),
         end_time |-> iso_time(rows[n].end_time)]]

\* compare_data, lines 92-131: the courses of both sides whose schedule sets differ
compare_data(files, courses, schedules) ==
  LET in_both(k) ==
        /\ k \in read_json_data(files)
        /\ \E r \in 1..Len(courses) : courses[r].course_code = files[k].course_code
      differs(k) ==
        /\ in_both(k)
        /\ json_schedules_set(JsonSchedules(files[k])) #
             db_schedules_set(read_database_data(courses, schedules, files[k].course_code))
      updated == SelectSeq([k \in 1..Len(files) |-> k], differs)
  IN [n \in 1..Len(updated) |->
        [course_code |-> files[updated[n]].course_code,
         json_schedules |-> Cardinality(json_schedules_set(JsonSchedules(files[updated[n]]))),
         db_schedules |->
            Cardinality(db_schedules_set(
               read_database_data(courses, schedules, files[updated[n]].course_code)))]]

\* compare_data.py, __main__: the comparator is run on json_dir and the store
\* right after load_course_data has ended with its summary
CompareReloaded ==
  /\ load_pc = "done"
  /\ logged = "summary"
  /\ ~results.called
  /\ results' = [called |-> TRUE,
                 updated_courses |-> compare_data(json_files, db_courses, db_schedules)]
  /\ UNCHANGED <<json_schedules, db_data_schedules, edited>>
  /\ UNCHANGED <<scrapeVars, loadVars, splitVars, checkpointVars>>

ReloadNext ==
  \/ RecreateTables
  \/ RecreateTablesFails
  \/ ReadFails
  \/ SkipInvalidCode
  \/ SkipDuplicate
  \/ BuildFails
  \/ AddCourse
  \/ FinalCommit
  \/ FinalCommitFails
  \/ DeleteCourse
  \/ CompareReloaded

ReloadSpec == LoadInit /\ [][ReloadNext]_vars

(* ================ the script around the driver: what survives the process ================ *)
\* The extraction of one record is one step here, whatever the backends
\* answer: the state is the checkpoint file, the per-course JSON files and the
\* memory of the running script. Record k of the corpus carries the course
\* code k; the codes of other files that an earlier run processed are negative.

\* number of records of the corpus
MaxRecords == 10
\* number of codes of other files the checkpoint may list before the first run
MaxLoaded == 9
\* number of times the script is started
MaxStarts == 2

Records == 1..MaxRecords
EarlierCodes(n) == {0 - k : k \in 1..n}

\* the records were scraped and saved to their files (main, line 535); the
\* checkpoint file is missing or lists codes of an earlier corpus
CheckpointInit ==
  /\ with_sections \in [Records -> BOOLEAN]
  /\ processed_file \in
       {CheckpointFile(FALSE, {})} \cup {CheckpointFile(TRUE, EarlierCodes(n)) : n \in 1..MaxLoaded}
  /\ course_files = {}
  /\ in_memory = {}
  /\ extracted = {}
  /\ worklist = <<>>
  /\ at = 1
  /\ step = "idle"
  /\ with_resume \in BOOLEAN
  /\ starts = 0
  /\ killed = FALSE
  /\ ScrapeIdle
  /\ LoadIdle
  /\ SplitIdle
  /\ CompareIdle

\* load_course_data (lines 553-589) reads the records from their files;
\* extract_dates_from_course_data, lines 399-411: the checkpoint is loaded when
\* resume is set, the records whose code it lists are left out of the list
EnterDriver(r) ==
  /\ step = "idle"
  /\ starts < MaxStarts
  /\ starts' = starts + 1
  /\ with_resume' = r
  /\ extracted' = course_files
  /\ in_memory' = InitialProcessed(r, processed_file)
  /\ worklist' = LET open(k) == k \notin InitialProcessed(r, processed_file)
                 IN SelectSeq([k \in Records |-> k], open)
  /\ at' = 1
  /\ step' = "loop"
  /\ UNCHANGED <<with_sections, processed_file, course_files, killed>>
  /\ UNCHANGED <<scrapeVars, loadVars, splitVars, compareVars>>

\* main (lines 533-538) or __main__ (lines 664-676) on a fresh corpus
FirstStart ==
  /\ starts = 0
  /\ EnterDriver(with_resume)

\* __main__, lines 664-676: the script is started again, always with resume=True
Restart ==
  /\ starts > 0
  /\ EnterDriver(TRUE)

Looping == step = "loop" /\ at <= Len(worklist)

\* lines 414-426: a record without sections gets schedules = [] and is added
\* to the set; "continue" skips the periodic save
MarkNoSections ==
  /\ Looping
  /\ ~with_sections[worklist[at]]
  /\ in_memory' = AddNoSections(in_memory, worklist[at])
  /\ extracted' = extracted \cup {worklist[at]}
  /\ at' = at + 1
  /\ UNCHANGED <<with_sections, processed_file, course_files, worklist, step, with_resume,
                 starts, killed>>
  /\ UNCHANGED <<scrapeVars, loadVars, splitVars, compareVars>>

\* lines 428-473: a record with sections is extracted, its schedules are set
\* in memory, its code is added to the set, and the checkpoint is saved when
\* the size of the set is a multiple of 10
ExtractAndMark ==
  /\ Looping
  /\ with_sections[worklist[at]]
  /\ in_memory' = in_memory \cup {worklist[at]}
  /\ processed_file' = PeriodicSave(in_memory \cup {worklist[at]}, processed_file)
  /\ extracted' = extracted \cup {worklist[at]}
  /\ at' = at + 1
  /\ UNCHANGED <<with_sections, course_files, worklist, step, with_resume, starts, killed>>
  /\ UNCHANGED <<scrapeVars, loadVars, splitVars, compareVars>>

\* lines 475-483: the loop is over, the checkpoint is saved, the driver returns
ReturnFromDriver ==
  /\ step = "loop"
  /\ at > Len(worklist)
  /\ processed_file' = save_processed_courses(in_memory)
  /\ step' = "returned"
  /\ UNCHANGED <<with_sections, course_files, in_memory, extracted, worklist, at, with_resume,
                 starts, killed>>
  /\ UNCHANGED <<scrapeVars, loadVars, splitVars, compareVars>>

\* save_course_data_to_file (lines 317-345), called by main and __main__ on
\* what the driver returned: every record is written to its file; the script ends
SaveCourseData ==
  /\ step = "returned"
  /\ course_files' = course_files \cup extracted
  /\ in_memory' = {}
  /\ extracted' = {}
  /\ worklist' = <<>>
  /\ at' = 1
  /\ step' = "idle"
  /\ UNCHANGED <<with_sections, processed_file, with_resume, starts, killed>>
  /\ UNCHANGED <<scrapeVars, loadVars, splitVars, compareVars>>

\* the process is killed: its memory is lost, the files stay as they are
Kill ==
  /\ step \in {"loop", "returned"}
  /\ killed' = TRUE
  /\ in_memory' = {}
  /\ extracted' = {}
  /\ worklist' = <<>>
  /\ at' = 1
  /\ step' = "idle"
  /\ UNCHANGED <<with_sections, processed_file, course_files, with_resume, starts>>
  /\ UNCHANGED <<scrapeVars, loadVars, splitVars, compareVars>>

CheckpointNext ==
  \/ FirstStart
  \/ Restart
  \/ MarkNoSections
  \/ ExtractAndMark
  \/ ReturnFromDriver
  \/ SaveCourseData
  \/ Kill

CheckpointSpec == CheckpointInit /\ [][CheckpointNext]_vars

(* ---------------- properties ---------------- *)
\* the backend calls of the current course that went to one service
ServiceLog(service) ==
  LET from(e) == e.service = service IN SelectSeq(log, from)

RunOver == pc = "idle" /\ run > 0

\* the record whose extraction the driver left last
last == unprocessed[i - 1]
JustExtracted == pc = "loop" /\ i > 1 /\ attempt > 0

\* C1: in a run with resume enabled, no backend is ever called for a record
\* whose course_code is in the checkpoint set loaded at the start of the run,
\* whatever sections or schedules the record carries.
C1_NoCallForCheckpointed ==
  resume => \A e \in invoked : course_data[e[1]].course_code \notin loaded

\* a resumed run is over: it called a backend for some record, and skipped a
\* checkpointed record that has sections and carries schedules
C1_Witness ==
  /\ RunOver
  /\ resume
  /\ invoked # {}
  /\ \E k \in Indices :
       /\ KeptByClean(course_data[k])
       /\ course_data[k].course_code \in loaded
       /\ course_data[k].course_sections # <<>>
       /\ course_data[k].schedules # <<>>

\* C2: of two consecutive complete runs with resume enabled over the same
\* corpus the second calls no backend: when a resumed run is over, every
\* course code of the filtered corpus is in the checkpoint file.
C2_SecondRunIdle ==
  /\ (run >= 2 /\ prev_resume /\ resume) => invoked = {}
  /\ (RunOver /\ resume) =>
        \A k \in Indices :
          KeptByClean(course_data[k]) =>
            course_data[k].course_code \in load_processed_courses(checkpoint_file)

\* the second of two resumed runs is over; the first attached an extracted
\* schedule to one record, left another without result and met a record
\* without sections
C2_Witness ==
  /\ RunOver
  /\ run = 2
  /\ prev_resume
  /\ resume
  /\ \E k \in Indices : course_data[k].schedules = <<GoodEntry>>
  /\ \E k \in Indices :
       KeptByClean(course_data[k]) /\ course_data[k].course_sections = <<>>

\* C3: Cohere is called for a course only after Cerebras was called for it in
\* this run and failed; a course whose Cerebras call returned a valid result,
\* an empty schedule list included, never sees a Cohere call.
C3_FallbackOnlyAfterPrimaryFailed ==
  /\ pc = "cohere" =>
       /\ ServiceLog("cerebras") # <<>>
       /\ ServiceLog("cerebras")[Len(ServiceLog("cerebras"))].result # "value"
       /\ <<cur, "cerebras">> \in invoked
  /\ \A e \in invoked :
       e[2] = "cohere" => (<<e[1], "cerebras">> \in invoked /\ outcome[e[1]] # "primary")

\* Cerebras returned a valid result with no schedule in it: the course is left
\* with an empty list and Cohere was not called
C3_Witness ==
  \E k \in Indices :
    /\ outcome[k] = "primary"
    /\ course_data[k].schedules = <<>>
    /\ <<k, "cerebras">> \in invoked
    /\ <<k, "cohere">> \notin invoked

\* C4: one call of try_extract_dates calls the backend at most 3 times, and
\* every wait between two attempts lasts at least 4 and at most 60 seconds.
C4_RetryBounded ==
  /\ attempt <= 3
  /\ Len(sleeps) <= 2
  /\ Len(ServiceLog("cerebras")) <= 3
  /\ Len(ServiceLog("cohere")) <= 2
  /\ \A k \in 1..Len(sleeps) : sleeps[k] >= 4 /\ sleeps[k] <= 60

\* a call is at its third attempt, after two waits
C4_Witness ==
  /\ pc = "cohere"
  /\ attempt = 3
  /\ Len(sleeps) = 2

\* C5: when the backend fails on attempts 1 and 2 and succeeds on attempt 3,
\* try_extract_dates returns the result after exactly 2 waits, the second
\* longer than the first and neither above 60 seconds.
C5_IncreasingBackoff ==
  (JustExtracted /\ attempt = 3 /\ outcome[last] \in {"primary", "fallback"}) =>
     /\ Len(sleeps) = 2
     /\ sleeps[2] > sleeps[1]
     /\ sleeps[1] <= 60
     /\ sleeps[2] <= 60

\* C6: whatever the kind of failure (a raised API error, a malformed or
\* schema-invalid response), the driver leaves a provider for the fallback, or
\* for an empty result, only after 3 attempts against that provider.
C6_EveryFailureRetried ==
  /\ pc = "cohere" => Len(ServiceLog("cerebras")) = 3
  /\ (JustExtracted /\ outcome[last] = "both_failed") => attempt = 3

\* C7: when Cerebras failed for a course, one retry sequence of 1 to 3 calls
\* goes to Cohere; Cerebras is not called again once Cohere was, and no backend
\* is called for a course the driver has left.
C7_OneFallbackSequence ==
  /\ pc \in {"cerebras", "cohere"} => outcome[cur] = "none"
  /\ pc = "cerebras" => ServiceLog("cohere") = <<>>
  /\ \A a, b \in 1..Len(log) :
       (a < b /\ log[a].service = "cohere") => log[b].service = "cohere"
  /\ pc = "cohere" => (attempt = Len(ServiceLog("cohere")) + 1 /\ attempt <= 3)
  /\ \A k \in Indices :
       outcome[k] \in {"fallback", "both_failed"} =>
          (<<k, "cerebras">> \in invoked /\ <<k, "cohere">> \in invoked)

\* both providers failed for the first course, Cohere after three attempts,
\* and the driver is at the next course
C7_Witness ==
  /\ JustExtracted
  /\ outcome[last] = "both_failed"
  /\ attempt = 3
  /\ i <= Len(unprocessed)

\* C8: when both providers failed for a course, its schedules are the empty
\* list when the driver moves on, whatever it carried on entry, the course is
\* in the processed set, and the run goes through every unprocessed course.
C8_BothFailedLeavesEmpty ==
  /\ \A k \in Indices :
       outcome[k] = "both_failed" =>
          /\ course_data[k].schedules = <<>>
          /\ course_data[k].course_code \in processed_courses
  /\ RunOver => \A n \in 1..Len(unprocessed) : outcome[unprocessed[n]] # "none"

\* C9: with resume disabled, every record that passes the filter and has
\* sections is submitted to Cerebras in that run, whatever the checkpoint file
\* lists and whatever schedules the record carries.
C9_AllSubmittedWithoutResume ==
  (RunOver /\ ~resume) =>
     \A k \in Indices :
       (KeptByClean(course_data[k]) /\ course_data[k].course_sections # <<>>) =>
          <<k, "cerebras">> \in invoked

\* resume is disabled and Cerebras was called for a record that carries
\* schedules and whose code the checkpoint file lists
C9_Witness ==
  /\ ~resume
  /\ pc = "cohere"
  /\ <<cur, "cerebras">> \in invoked
  /\ course_data[cur].schedules = <<OldEntry>>
  /\ course_data[cur].course_code \in load_processed_courses(checkpoint_file)

\* C10: a record without sections is added to the processed set with an empty
\* schedules list, and no backend is called for it.
C10_NoSectionsNoCall ==
  \A k \in Indices :
    outcome[k] = "no_sections" =>
       /\ course_data[k].course_code \in processed_courses
       /\ course_data[k].has_schedules
       /\ course_data[k].schedules = <<>>
       /\ <<k, "cerebras">> \notin invoked
       /\ <<k, "cohere">> \notin invoked

\* the driver went past a record without sections
C10_Witness ==
  \E k \in Indices :
    /\ outcome[k] = "no_sections"
    /\ course_data[k].course_sections = <<>>
    /\ course_data[k].course_code \in processed_courses

\* C11: a provider response that does not satisfy the schedule schema (an
\* object whose schedules is a list of entries carrying the five fields) is
\* never attached as a course's schedules, on the Cerebras path or on the
\* Cohere path.
C11_OnlySchemaValidAttached ==
  \A k \in Indices :
    outcome[k] \in {"primary", "fallback"} =>
       \A n \in 1..Len(course_data[k].schedules) :
          SchemaValidEntry(course_data[k].schedules[n])

(* ---------------- properties of the loader ---------------- *)
\* the rows of table courses that carry a code
RowsWith(code) == {r \in 1..Len(db_courses) : db_courses[r].course_code = code}

\* the entries of failed_courses recorded for the file at position k
EntriesOf(k) == {n \in 1..Len(failed_courses) : failed_courses[n].file = FileName(k)}

\* the file at position k is a course record the loader can build a row from
CourseFile(k) ==
  /\ json_files[k].readable
  /\ ~InvalidCode(json_files[k].course_code)
  /\ json_files[k].has_name

\* the first course record of the listing that carries the code of file k
FirstWithCodeOf(k) ==
  CHOOSE a \in 1..k :
    /\ CourseFile(a)
    /\ json_files[a].course_code = json_files[k].course_code
    /\ \A j \in 1..(a - 1) :
         CourseFile(j) => json_files[j].course_code # json_files[k].course_code

\* the run went through its file list and the database took the commit
LoadCompleted == load_pc = "done" /\ ~db_fault /\ json_files[1].readable

\* C12: when a load run has gone through its files and committed, every code
\* carried by course files of the run is persisted exactly once, with the data
\* of the first of these files; a later file with the same code is skipped
\* without a failure entry, and the files with other codes are loaded.
C12_FirstDuplicateWins ==
  LoadCompleted =>
    \A k \in 1..Len(json_files) :
      CourseFile(k) =>
        /\ Cardinality(RowsWith(json_files[k].course_code)) = 1
        /\ \A r \in RowsWith(json_files[k].course_code) :
             db_courses[r].course_name = json_files[FirstWithCodeOf(k)].course_name
        /\ (k # FirstWithCodeOf(k)) => EntriesOf(k) = {}

\* a completed run over two course files with the same code and different
\* data, and a third file with another code: two courses are persisted
C12_Witness ==
  /\ LoadCompleted
  /\ logged = "summary"
  /\ Len(db_courses) = 2
  /\ \E a, b \in 1..Len(json_files) :
       /\ a < b
       /\ CourseFile(a)
       /\ CourseFile(b)
       /\ json_files[a].course_code = json_files[b].course_code
       /\ json_files[a].course_name # json_files[b].course_name
       /\ Cardinality(RowsWith(json_files[a].course_code)) = 1

\* the loop reached the file at position k
Reached(k) ==
  \/ k < file_idx
  \/ load_pc \in {"done", "deleted"} /\ ~db_fault /\ k = file_idx

\* the run is over
LoadOver == load_pc \in {"done", "deleted"}

\* C13: a file that cannot be read or decoded, at any position of the list
\* including the first, is recorded in the failure report and every other file
\* of the run is still processed: if the database answers, the run ends past
\* the last file.
C13_UnreadableFileNeverAborts ==
  (LoadOver /\ ~db_fault) =>
     /\ file_idx > Len(json_files)
     /\ \A k \in 1..Len(json_files) : ~json_files[k].readable => EntriesOf(k) # {}

\* what the file at position k says about itself; an unreadable file says nothing
OwnCode(k) ==
  IF json_files[k].readable /\ json_files[k].course_code # NoCode
    THEN {json_files[k].course_code} ELSE {Unknown, <<>>}
OwnSections(k) == json_files[k].readable /\ json_files[k].course_sections # <<>>
OwnSchedules(k) == json_files[k].readable /\ json_files[k].schedules # <<>>

\* C14: every entry of the failure report carries the course_code,
\* has_sections and has_schedules of the file named in its file field, never
\* those of a file processed earlier.
C14_EntryDescribesItsFile ==
  \A n \in 1..Len(failed_courses) :
    LET e == failed_courses[n]
        k == e.file[2]
    IN /\ e.course_code \in OwnCode(k)
       /\ e.has_sections = OwnSections(k)
       /\ e.has_schedules = OwnSchedules(k)

\* a code that is empty or is not a prefix of 3 or 4 letters, a space and digits
Malformed(code) ==
  ~ \E k \in 1..Len(code) :
       /\ code[k] = " "
       /\ k - 1 \in 3..4
       /\ isalpha(SubSeq(code, 1, k - 1))
       /\ isdigit(SubSeq(code, k + 1, Len(code)))

\* C15: a file whose course_code is empty or fails the prefix/number check is
\* never a row of the session or of table courses; once the loop has reached
\* it there is exactly one failure entry for it, with the reason
\* "Invalid course code format", and the loop has moved on to the next file.
C15_InvalidCodeRecordedAndSkipped ==
  \A k \in 1..Len(json_files) :
    (json_files[k].readable /\ Malformed(json_files[k].course_code)) =>
       /\ \A r \in 1..Len(db_new) : db_new[r].course_code # json_files[k].course_code
       /\ RowsWith(json_files[k].course_code) = {}
       /\ Reached(k) =>
            /\ file_idx > k
            /\ Cardinality(EntriesOf(k)) = 1
            /\ \A n \in EntriesOf(k) :
                 /\ failed_courses[n].reason = "Invalid course code format"
                 /\ failed_courses[n].course_code = json_files[k].course_code

\* the loop went past a file without a code and a file whose code has no
\* space, and then added a course
C15_Witness ==
  /\ load_pc = "loop"
  /\ file_idx = 4
  /\ json_files[1].course_code = NoCode
  /\ json_files[1].readable
  /\ json_files[2].course_code = BadCode
  /\ Len(failed_courses) = 2
  /\ Len(db_new) = 1

\* C17: every schedule row of table schedules has its end_date on or after
\* its start_date.
C17_EndNotBeforeStart ==
  \A r \in 1..Len(db_schedules) :
    DateLE(db_schedules[r].start_date, db_schedules[r].end_date)

\* C18: every row of table schedules references exactly one row of table
\* courses at all times, also after a course was removed (its schedules are
\* removed with it).
C18_NoOrphanSchedule ==
  \A r \in 1..Len(db_schedules) :
    Cardinality({c \in 1..Len(db_courses) :
                   db_courses[c].id = db_schedules[r].course_id}) = 1

\* C20: every run of load_course_data ends by logging its summary of counts,
\* also when table re-creation, a commit or a file read fails.
C20_RunEndsWithSummary ==
  LoadOver => logged = "summary"

(* ---------------- properties of split_course_code ---------------- *)
\* the code matches ^[A-Za-z]{3,4} \d+$: 3 or 4 ASCII letters, one space,
\* one or more ASCII digits
MatchesPattern(code) ==
  \E p \in 3..4 :
    /\ Len(code) >= p + 2
    /\ \A k \in 1..p : code[k] = "A"
    /\ code[p + 1] = " "
    /\ \A k \in (p + 2)..Len(code) : code[k] = "7"

\* C16: split_course_code returns (prefix, number) exactly for the codes that
\* match ^[A-Za-z]{3,4} \d+$, and (original_code, "") for every other input.
C16_SplitExactlyOnPattern ==
  split_ret # <<>> =>
    IF MatchesPattern(split_arg)
      THEN split_ret = str_split(split_arg)
      ELSE split_ret = <<split_arg, <<>>>>

(* ---------------- properties of the comparator ---------------- *)
\* C19: a course with the same schedules on both sides, in any order, is not
\* in updated_courses; after one field of one entry was changed on one side it
\* is, for every schedule list, lists with repeated entries included.
C19_UpdatedIffChanged ==
  results.called =>
    /\ edited = <<>> => results.updated_courses = <<>>
    /\ edited # <<>> => results.updated_courses # <<>>

(* ---------------- properties of the checkpoint and of duplicate codes ---------------- *)
\* C27: no step of a run of the driver, with resume enabled or disabled,
\* removes a course code from the checkpoint file: after every write the file
\* lists a superset of the codes it listed before.
C27_CheckpointNeverShrinks ==
  [][load_processed_courses(checkpoint_file) \subseteq load_processed_courses(checkpoint_file')]_vars

\* the records for which a backend was called in this run
Submitted == {k \in Indices : <<k, "cerebras">> \in invoked \/ <<k, "cohere">> \in invoked}

\* C28: within one run the backends are called for at most one record per
\* course_code, also when several records of the corpus carry the same code.
C28_OneRecordPerCode ==
  \A a, b \in Submitted :
    course_data[a].course_code = course_data[b].course_code => a = b

\* the record's cleaned_response_schedules is not empty and parses to an
\* object with the key "schedules"
Preparsed(c) ==
  /\ c.cleaned_response_schedules.kind \notin {"absent", "empty"}
  /\ ~json_loads(c.cleaned_response_schedules).error
  /\ json_loads(c.cleaned_response_schedules).has_key

\* C22: a record that carries a non-empty cleaned_response_schedules which
\* parses to an object with a schedules key never enters the extraction step:
\* it is taken as it is, before the checkpoint test, and no backend is called
\* for it.
C22_PreparsedNeverExtracted ==
  pc \in {"cerebras", "cohere"} => ~Preparsed(course_data[cur])

(* ---------------- properties of the script around the driver ---------------- *)
\* C21: at every boundary between two iterations of the driver's loop, fewer
\* than 10 codes are in the in-memory set and not in the checkpoint file,
\* whatever records have sections and whatever the checkpoint listed; when the
\* driver has returned, the checkpoint file lists exactly the in-memory set.
C21_UnsavedBelowTen ==
  /\ step = "loop" =>
       Cardinality(in_memory \ load_processed_courses(processed_file)) < SaveEvery
  /\ step = "returned" => load_processed_courses(processed_file) = in_memory

\* the records left out of the list of the running driver
Skipped == {k \in Records : \A n \in 1..Len(worklist) : worklist[n] # k}

\* C26: when the script was killed and is run again with resume, every record
\* that the run skips because the checkpoint lists its code has its schedules
\* in its per-course JSON file.
C26_SkippedHaveResults ==
  (killed /\ step = "loop") => Skipped \subseteq course_files

(* ---------------- properties of the loader: batches, schedules, accounting ---------------- *)
\* C23: after each iteration of the loop over the files the session holds
\* fewer added and uncommitted courses than the commit period (5 in test mode,
\* 100 otherwise); after the final commit it holds none, and every course
\* counted is a row of table courses.
C23_UncommittedBelowBatch ==
  /\ load_pc = "loop" =>
       Len(db_new) < (IF test_mode THEN TestCommitEvery ELSE CommitEvery)
  /\ (load_pc = "done" /\ logged = "summary") =>
       /\ db_new = <<>>
       /\ Len(db_courses) = counters.courses_added

\* a test-mode run has added and committed its fifth course before the final
\* commit
C23_Witness ==
  /\ test_mode
  /\ load_pc = "loop"
  /\ counters.courses_added = TestCommitEvery
  /\ db_new = <<>>
  /\ Len(db_courses) = TestCommitEvery

\* the rows of table schedules that belong to the course with a code, by id
SchedulesOf(code) ==
  LET own(s) == \E r \in RowsWith(code) : db_courses[r].id = s.course_id
  IN SelectSeq(db_schedules, own)

\* the strings that fit one of the formats of parse_date, of parse_time
DateParses(s) == s \in {"2025-01-13", "2025-03-24", "24Mar2025", " March 24, 2025"}
TimeParses(s) == s \in {"6:00 PM", "6:00PM", "9:00 p.m.", "21:00"}

\* the schedule entries of the file at position k, and those whose two dates parse
FileEntries(k) == IF json_files[k].has_schedules THEN json_files[k].schedules ELSE <<>>
DatedEntries(k) ==
  LET dated(e) == DateParses(e.start_date) /\ DateParses(e.end_date)
  IN SelectSeq(FileEntries(k), dated)

\* the file at position k is the one its code is loaded from
Loaded(k) == CourseFile(k) /\ k = FirstWithCodeOf(k)

C25_MalformedFieldOnlyNulled ==
  LoadCompleted =>
    \A k \in 1..Len(json_files) :
      Loaded(k) =>
        /\ RowsWith(json_files[k].course_code) # {}
        /\ Len(SchedulesOf(json_files[k].course_code)) = Len(FileEntries(k))

\* C25, amended: a malformed start_time or end_time is stored as null and the
\* entry's dates and day are stored as the file gives them; an entry with a
\* malformed start_date or end_date is not stored (no row has a null date);
\* the course is stored in both cases.
C25_MalformedTimeOnlyNulled ==
  LoadCompleted =>
    \A k \in 1..Len(json_files) :
      Loaded(k) =>
        /\ RowsWith(json_files[k].course_code) # {}
        /\ \A n \in 1..Len(SchedulesOf(json_files[k].course_code)) :
             LET row == SchedulesOf(json_files[k].course_code)[n]
             IN /\ row.start_date # None
                /\ row.end_date # None
                /\ n <= Len(DatedEntries(k))
                /\ row.day_of_week = DatedEntries(k)[n].day_or_days_of_week
                /\ (row.start_time = None) = ~TimeParses(DatedEntries(k)[n].start_time)
                /\ (row.end_time = None) = ~TimeParses(DatedEntries(k)[n].end_time)

\* a committed run stored an entry whose start_time does not parse, with a
\* null start_time, and dropped an entry of the same file whose start_date
\* does not parse
C25_Witness ==
  /\ LoadCompleted
  /\ logged = "summary"
  /\ \E k \in 1..Len(json_files) :
       /\ Loaded(k)
       /\ Len(DatedEntries(k)) < Len(FileEntries(k))
       /\ \E n \in 1..Len(SchedulesOf(json_files[k].course_code)) :
            /\ SchedulesOf(json_files[k].course_code)[n].start_time = None
            /\ DatedEntries(k)[n].start_time = "TBD"

\* how the run accounted for the file at position k
CountedAsAdded(k) == Loaded(k)
InFailureReport(k) == EntriesOf(k) # {}
SkippedAsDuplicate(k) ==
  /\ json_files[k].readable
  /\ ~InvalidCode(json_files[k].course_code)
  /\ \E j \in 1..(k - 1) : Loaded(j) /\ json_files[j].course_code = json_files[k].course_code

\* C30: when a load run is over and the database answered, every file of the
\* listing is accounted for in exactly one way (counted in courses_added, in
\* the failure report, or skipped as a duplicate of the batch), errors is the
\* number of failure entries, and every counted course is a row of table courses.
C30_EveryFileAccounted ==
  (load_pc = "done" /\ ~db_fault) =>
    /\ \A k \in 1..Len(json_files) :
         /\ CountedAsAdded(k) \/ InFailureReport(k) \/ SkippedAsDuplicate(k)
         /\ ~(CountedAsAdded(k) /\ InFailureReport(k))
         /\ ~(CountedAsAdded(k) /\ SkippedAsDuplicate(k))
         /\ ~(InFailureReport(k) /\ SkippedAsDuplicate(k))
         /\ CountedAsAdded(k) => RowsWith(json_files[k].course_code) # {}
    /\ counters.courses_added = Cardinality({k \in 1..Len(json_files) : CountedAsAdded(k)})
    /\ counters.errors = Len(failed_courses)

(* ---------------- properties of the comparator after a load ---------------- *)
\* C29: the comparator run on the files right after they were loaded reports
\* no updated course: for every course in the files and in the store the two
\* schedule tuple sets are equal, also when several files carry one code.
C29_ReloadThenCompareClean ==
  results.called => results.updated_courses = <<>>

====
